---- MODULE Spec2Model ----
(***************************************************************************)
(* Model of the content loader (getAllPostSlugs, getPost, getPosts), the   *)
(* blog page that calls it, and the remark plugin transformImgSrc.         *)
(*                                                                         *)
(* Strings that the code takes apart (slugs, paths, image URLs) are        *)
(* sequences of tokens: "/" and "." are the characters, every other token  *)
(* is a run of characters holding neither.                                 *)
(***************************************************************************)
EXTENDS Integers, Sequences, FiniteSets, TLC

(* ------------------------------ bounds -------------------------------- *)
MaxPosts == 3
MaxDirs == 2
MaxSlugLen == 2
MaxUrlPrefix == 2
MaxInline == 2

AllNames == <<"a", "b", "c", "d", "e">>
Names == {AllNames[i] : i \in 1..MaxPosts}

SeqsUpTo(S, n) == UNION {[1..k -> S] : k \in 0..n}

(* ------------------------- front-matter values ------------------------ *)
(* A scalar as written in the YAML block, and the JavaScript value that    *)
(* gray-matter (js-yaml, default schema) resolves it to: a quoted scalar   *)
(* is a string, a plain scalar shaped like a timestamp is a Date object,   *)
(* any other plain scalar is a string.                                     *)
Quoted(text) == [style |-> "quoted", text |-> text]
Plain(text) == [style |-> "plain", text |-> text]
(* A key the front-matter does not have. *)
Absent == [style |-> "absent", text |-> ""]

TitleScalars == {Quoted("T")}
SpoilerScalars == {Quoted("S")}
DateScalars == {Quoted("2024-01-01"), Plain("2023-11-10"), Plain("soon")}
Bodies == {"", "B"}

(* An index.md: its front-matter block (`syntax` "yaml" when the block is  *)
(* well-formed YAML, "invalid" when js-yaml cannot parse it, "none" when   *)
(* the file has no block), the three documented keys, the names of the     *)
(* other keys, and the body.  The repository's posts all carry a fourth    *)
(* key, cta.                                                               *)
FmKeys == {"title", "date", "spoiler"}

Documents == [title : TitleScalars, date : DateScalars,
              spoiler : SpoilerScalars, body : Bodies,
              extra : {{"cta"}}, syntax : {"yaml"}]

(* Documents whose front-matter lacks keys, has no other key, is not YAML  *)
(* or is missing altogether.                                               *)
FmDocuments ==
  [title : {Quoted("T"), Absent}, date : {Quoted("2024-01-01"), Absent},
   spoiler : {Quoted("S"), Absent}, body : {"B"},
   extra : {{}, {"cta"}}, syntax : {"yaml"}]
  \cup [title : {Absent}, date : {Absent}, spoiler : {Absent}, body : {"B"},
        extra : {{}}, syntax : {"invalid", "none"}]

IsoDates == {"2023-11-10", "2024-01-01"}

JsString(text) == [t |-> "string", s |-> text]
JsDate(text) == [t |-> "Date", s |-> text]
JsUndefined == [t |-> "undefined", s |-> ""]

yamlResolve(scalar) ==
  IF scalar.style = "quoted" THEN JsString(scalar.text)
  ELSE IF scalar.text \in IsoDates THEN JsDate(scalar.text)
  ELSE JsString(scalar.text)

(* matter(fileContents): the body and the front-matter's keys with their   *)
(* values.  js-yaml throws on a block that is not YAML and gray-matter     *)
(* lets the exception through; a file with no block has no keys.           *)
matter(doc) ==
  LET keys == IF doc.syntax = "yaml"
              THEN {k \in FmKeys : doc[k].style # "absent"} \cup doc.extra
              ELSE {}
  IN [threw |-> doc.syntax = "invalid",
      content |-> doc.body,
      data |-> [k \in keys |-> IF k \in FmKeys THEN yamlResolve(doc[k])
                                                ELSE JsString("x")]]

(* data.<key>: undefined when the object has no such property. *)
prop(data, key) == IF key \in DOMAIN data THEN data[key] ELSE JsUndefined

(* Date.parse: days since an epoch for a date it can read, NaN otherwise.  *)
(* A Date object is converted to its string form first, which parses back  *)
(* to the same day.                                                        *)
NaN == -1
DayOf(text) == IF text = "2023-11-10" THEN 1 ELSE 2
DateParse(v) ==
  IF v.t \in {"string", "Date"} /\ v.s \in IsoDates THEN DayOf(v.s) ELSE NaN

(* JavaScript's < and >= on numbers: false when either side is NaN.        *)
NumLt(x, y) == x # NaN /\ y # NaN /\ x < y
NumGe(x, y) == x # NaN /\ y # NaN /\ x >= y

(* ----------------------------- the store ------------------------------ *)
(* <postsDirectory>: whether it can be listed, and its entries in readdir  *)
(* order.  An entry is a plain file or a directory; a directory holds an   *)
(* index.md that is absent, unreadable or a document.                       *)
NoDoc == [title |-> Quoted(""), date |-> Quoted(""), spoiler |-> Quoted(""),
          body |-> "", extra |-> {}, syntax |-> "yaml"]

DirShapes == {[kind |-> "dir", index |-> "absent", doc |-> NoDoc],
              [kind |-> "dir", index |-> "unreadable", doc |-> NoDoc]}
             \cup {[kind |-> "dir", index |-> "present", doc |-> d] : d \in Documents}

EntryShapes == {[kind |-> "file", index |-> "absent", doc |-> NoDoc]} \cup DirShapes

(* Entry k is named AllNames[k]: no code compares names, so which name     *)
(* sits at which readdir position is immaterial.                           *)
EntriesOf(sh) ==
  [k \in 1..Len(sh) |-> [name |-> AllNames[k], kind |-> sh[k].kind,
                         index |-> sh[k].index, doc |-> sh[k].doc]]

(* `outer` tells whether the directory above postsDirectory (public/)     *)
(* holds an index.md of its own; in the repository it holds none.          *)
StoresUpTo(n) ==
  {[rootReadable |-> r, entries |-> EntriesOf(sh), outer |-> "absent"] :
     r \in BOOLEAN, sh \in SeqsUpTo(EntryShapes, n)}

DirNames(st) ==
  {st.entries[k].name : k \in {j \in 1..Len(st.entries) : st.entries[j].kind = "dir"}}

(* ------------------------------- paths -------------------------------- *)
(* Slugs asked for over the route or the API: any short string over the    *)
(* separator, the dot and two directory names.                             *)
SlugToks == {"/", ".", AllNames[1], AllNames[2]}
Slugs == SeqsUpTo(SlugToks, MaxSlugLen) \ {<<>>}

(* The segments of a string between its separators, empty ones dropped.    *)
RECURSIVE SplitFrom(_, _, _, _)
SplitFrom(s, i, cur, acc) ==
  IF i > Len(s) THEN (IF cur = <<>> THEN acc ELSE Append(acc, cur))
  ELSE IF s[i] = "/"
       THEN SplitFrom(s, i + 1, <<>>, IF cur = <<>> THEN acc ELSE Append(acc, cur))
       ELSE SplitFrom(s, i + 1, Append(cur, s[i]), acc)
Split(s) == SplitFrom(s, 1, <<>>, <<>>)

(* path.join's normalisation of the part after postsDirectory: "." is      *)
(* dropped, ".." removes the segment before it or, with none left, climbs  *)
(* one directory above postsDirectory.                                     *)
RECURSIVE NormalizeFrom(_, _, _, _)
NormalizeFrom(segs, i, up, acc) ==
  IF i > Len(segs) THEN [up |-> up, segs |-> acc]
  ELSE IF segs[i] = <<".">> THEN NormalizeFrom(segs, i + 1, up, acc)
  ELSE IF segs[i] = <<".", ".">>
       THEN IF acc = <<>> THEN NormalizeFrom(segs, i + 1, up + 1, acc)
            ELSE NormalizeFrom(segs, i + 1, up, SubSeq(acc, 1, Len(acc) - 1))
       ELSE NormalizeFrom(segs, i + 1, up, Append(acc, segs[i]))

(* path.join(postsDirectory, slug, 'index.md'), relative to postsDirectory: *)
(* the file index.md in the directory reached by climbing `up` levels and  *)
(* then descending through `segs`.                                          *)
pathJoin(slug) == NormalizeFrom(Split(slug), 1, 0, <<>>)

FsOk(doc) == [ok |-> TRUE, err |-> "", doc |-> doc]
FsErr(code) == [ok |-> FALSE, err |-> code, doc |-> NoDoc]

EntryNamed(st, n) == CHOOSE k \in 1..Len(st.entries) : st.entries[k].name = n

(* The index.md a store with `outer` present holds in public/. *)
OuterDoc == [title |-> Quoted("T"), date |-> Quoted("2024-01-01"),
             spoiler |-> Quoted("S"), body |-> "B", extra |-> {},
             syntax |-> "yaml"]

(* readFile(path, 'utf8').  The files modelled are the index.md of the     *)
(* post directories and the one of public/; there are no directories       *)
(* inside a post directory.                                                *)
readFile(st, path) ==
  IF path.up = 1 /\ path.segs = <<>>
  THEN (IF st.outer = "present" THEN FsOk(OuterDoc) ELSE FsErr("ENOENT"))
  ELSE IF path.up > 0 \/ Len(path.segs) # 1 THEN FsErr("ENOENT")
  ELSE IF Len(path.segs[1]) # 1 THEN FsErr("ENOENT")
  ELSE IF \A k \in 1..Len(st.entries) : st.entries[k].name # path.segs[1][1]
       THEN FsErr("ENOENT")
  ELSE LET e == st.entries[EntryNamed(st, path.segs[1][1])] IN
       IF e.kind = "file" THEN FsErr("ENOTDIR")
       ELSE IF e.index = "absent" THEN FsErr("ENOENT")
       ELSE IF e.index = "unreadable" THEN FsErr("EACCES")
       ELSE FsOk(e.doc)

readdirMut(st) == [ok |-> TRUE, err |-> "", entries |-> IF st.rootReadable THEN st.entries ELSE <<>>]

(* readdir(postsDirectory, { withFileTypes: true }) *)
readdir(st) ==
  IF st.rootReadable THEN [ok |-> TRUE, err |-> "", entries |-> st.entries]
  ELSE [ok |-> FALSE, err |-> "EACCES", entries |-> <<>>]

(* ------------------------------ the loader ---------------------------- *)
isDirectoryMut(entry) == TRUE

isDirectory(entry) == entry.kind = "dir"

(* dirContents.filter((entry) => entry.isDirectory()) *)
RECURSIVE filterDirectories(_)
filterDirectories(s) ==
  IF s = <<>> THEN <<>>
  ELSE (IF isDirectory(Head(s)) THEN <<Head(s)>> ELSE <<>>)
       \o filterDirectories(Tail(s))

(* getAllPostSlugs, after its readdir: the directories' names as slugs.    *)
getAllPostSlugs(dirContents) ==
  LET postDirectories == filterDirectories(dirContents) IN
  [k \in 1..Len(postDirectories) |-> [slug |-> <<postDirectories[k].name>>]]

getPostResultMut(slug, fileContents) ==
  LET m == matter(fileContents) IN
  [slug |-> slug, content |-> m.content, title |-> prop(m.data, "spoiler"),
   spoiler |-> prop(m.data, "spoiler"), date |-> prop(m.data, "date")]

(* getPost, after its readFile. *)
getPostResult(slug, fileContents) ==
  LET m == matter(fileContents) IN
  [slug |-> slug, content |-> m.content, title |-> prop(m.data, "title"),
   spoiler |-> prop(m.data, "spoiler"), date |-> prop(m.data, "date")]

blogPostMut(slug, fileContent) ==
  LET data == matter(fileContent).data IN
  [slug |-> slug, title |-> prop(data, "title"), spoiler |-> prop(data, "spoiler"),
   date |-> JsDate(prop(data, "date").s)]

blogPostSpread(slug, fileContent) ==
  LET data == matter(fileContent).data IN
  [k \in {"slug", "title", "spoiler", "date"} \cup DOMAIN data |->
     IF k = "slug" THEN slug ELSE prop(data, k)]

(* getPosts: one entry of posts, from a slug and that slug's file. *)
blogPost(slug, fileContent) ==
  LET data == matter(fileContent).data IN
  [slug |-> slug, title |-> prop(data, "title"), spoiler |-> prop(data, "spoiler"),
   date |-> prop(data, "date")]

mapPostsMut(postSlugs, fileContents) ==
  [i \in 1..Len(postSlugs) - 1 |-> blogPost(postSlugs[i], fileContents[i])]

mapPosts(postSlugs, fileContents) ==
  [i \in 1..Len(postSlugs) |-> blogPost(postSlugs[i], fileContents[i])]

compareMut(a, b) == IF NumLt(DateParse(b.date), DateParse(a.date)) THEN 1 ELSE -1

(* The comparator handed to posts.sort. *)
compare(a, b) == IF NumLt(DateParse(a.date), DateParse(b.date)) THEN 1 ELSE -1

(* Array.prototype.sort as Node's V8 runs it on a short array (fewer than  *)
(* 64 elements: one run is found and the rest is inserted by binary        *)
(* search).  Positions are 1-based; lo..hi-1 is the range searched.        *)
RECURSIVE runEnd(_, _, _)
runEnd(arr, isDescending, idx) ==
  IF idx > Len(arr) THEN Len(arr)
  ELSE LET order == compare(arr[idx], arr[idx - 1]) IN
       IF (isDescending /\ order >= 0) \/ (~isDescending /\ order < 0)
       THEN idx - 1
       ELSE runEnd(arr, isDescending, idx + 1)

Reverse(s) == [i \in 1..Len(s) |-> s[Len(s) + 1 - i]]

RECURSIVE searchInsert(_, _, _, _)
searchInsert(arr, pivot, left, right) ==
  IF left >= right THEN left
  ELSE LET mid == left + ((right - left) \div 2) IN
       IF compare(pivot, arr[mid]) < 0
       THEN searchInsert(arr, pivot, left, mid)
       ELSE searchInsert(arr, pivot, mid + 1, right)

RECURSIVE binaryInsertionSortMut(_, _)
binaryInsertionSortMut(arr, start) ==
  IF start > Len(arr) THEN arr
  ELSE LET pivot == arr[start]
           left == searchInsert(arr, pivot, 1, start)
       IN binaryInsertionSortMut(
            SubSeq(arr, 1, left - 1) \o <<pivot>> \o SubSeq(arr, left + 1, Len(arr)),
            start + 1)

RECURSIVE binaryInsertionSort(_, _)
binaryInsertionSort(arr, start) ==
  IF start > Len(arr) THEN arr
  ELSE LET pivot == arr[start]
           left == searchInsert(arr, pivot, 1, start)
       IN binaryInsertionSort(
            SubSeq(arr, 1, left - 1) \o <<pivot>> \o SubSeq(arr, left, start - 1)
              \o SubSeq(arr, start + 1, Len(arr)),
            start + 1)

sortPosts(posts) ==
  IF Len(posts) < 2 THEN posts
  ELSE LET isDescending == compare(posts[2], posts[1]) < 0
           run == runEnd(posts, isDescending, 3)
           made == IF isDescending
                   THEN Reverse(SubSeq(posts, 1, run)) \o SubSeq(posts, run + 1, Len(posts))
                   ELSE posts
       IN binaryInsertionSort(made, run + 1)

(* --------------------------- transformImgSrc -------------------------- *)
(* A markdown tree with one block under its root: a paragraph, or a        *)
(* blockquote holding a paragraph.  `children` are the paragraph's direct  *)
(* children, text or images.                                               *)
Text == [type |-> "text", url |-> <<>>]
Image(url) == [type |-> "image", url |-> url]

(* Image URLs: a file name after any short run of dots and slashes, and   *)
(* one URL with a scheme and a host.                                       *)
Urls == {prefix \o <<"foo.png">> : prefix \in SeqsUpTo({".", "/"}, MaxUrlPrefix)}
        \cup {<<"https:", "/", "/", "example.com", "/", "foo.png">>,
              <<".", "/", ".", "/", "foo.png">>}
Inlines == {Text} \cup {Image(u) : u \in Urls}
Trees == [block : {"paragraph", "blockquote"},
          children : SeqsUpTo(Inlines, MaxInline)]
ImgSlugs == {<<AllNames[1]>>, <<"my-post">>}

RECURSIVE replaceDotSlashMut(_, _)
replaceDotSlashMut(url, i) ==
  IF i + 1 > Len(url) THEN url
  ELSE IF url[i] = "." /\ url[i + 1] = "/"
       THEN replaceDotSlashMut(SubSeq(url, 1, i - 1) \o SubSeq(url, i + 2, Len(url)), i)
       ELSE replaceDotSlashMut(url, i + 1)

(* url.replace('./', ''): the first occurrence of "./" is taken out. *)
RECURSIVE replaceDotSlash(_, _)
replaceDotSlash(url, i) ==
  IF i + 1 > Len(url) THEN url
  ELSE IF url[i] = "." /\ url[i + 1] = "/"
       THEN SubSeq(url, 1, i - 1) \o SubSeq(url, i + 2, Len(url))
       ELSE replaceDotSlash(url, i + 1)

(* `/blogs/${slug}/${fileName}` *)
rewrittenUrl(slug, url) ==
  <<"/", "blogs", "/">> \o slug \o <<"/">> \o replaceDotSlash(url, 1)

(* node.children.find((child) => child.type === 'image'): the position of  *)
(* the first image among the children, 0 when there is none.               *)
findImage(children) ==
  IF \E k \in 1..Len(children) : children[k].type = "image"
  THEN CHOOSE k \in 1..Len(children) :
         /\ children[k].type = "image"
         /\ \A j \in 1..k - 1 : children[j].type # "image"
  ELSE 0

(* The visitor, run on one paragraph node. *)
visitParagraph(slug, children) ==
  LET k == findImage(children) IN
  IF k = 0 THEN children
  ELSE [children EXCEPT ![k].url = rewrittenUrl(slug, children[k].url)]

(* visit(tree, 'paragraph', visitor) reaches the paragraph nodes at every  *)
(* depth, so the paragraph of either block is visited.                     *)
transformImgSrc(slug, t) ==
  [t EXCEPT !.children = visitParagraph(slug, t.children)]

(* --------------------------- the page views --------------------------- *)
(* Posts: the href of each list item. *)
postsHrefs(ps) == [i \in 1..Len(ps) |-> <<"/", "blogs", "/">> \o ps[i].slug]

(* Posts formats each date with Intl.DateTimeFormat(...).format(            *)
(* Date.parse(post.date)), which throws a RangeError on NaN: the list      *)
(* renders only when every date parses.                                    *)
postsRenders(ps) == \A i \in 1..Len(ps) : DateParse(ps[i].date) # NaN

(* The markdown tree MDXRemote parses the content to.  The body "B" is a   *)
(* paragraph of text with one relative image.                              *)
mdast(content) ==
  [block |-> "paragraph",
   children |-> IF content = "" THEN <<>>
                ELSE <<Text, Image(<<".", "/", "foo.png">>)>>]

(* The plugins of BlogPage's MDXRemote.  The processor runs the remark     *)
(* plugins in the order of their array, then the rehype plugins.           *)
remarkPluginsMut == <<"remarkSmartypants", "transformImgSrc">>

remarkPlugins == <<"transformImgSrc", "remarkSmartypants">>

rehypePlugins == <<"rehypePrettyCode">>

pipeline == remarkPlugins \o rehypePlugins

(* ------------------------------- state -------------------------------- *)
VARIABLES
  store,      \* the content store; nothing in the program writes it
  pc,         \* where the request in progress stands
  op,         \* the operation the request runs
  arg,        \* the slug the request was given (getPost, BlogPage)
  postSlugs,  \* getPosts: the slugs it listed
  pending,    \* getPosts: positions whose readFile has not settled
  fileContents, \* getPosts: the files read so far, by position
  order,      \* getPosts: the positions in the order their reads settled
  reads,      \* file system calls of the request, by target
  response,   \* how the request ended
  slugsOut,   \* the value getAllPostSlugs returned
  posts,      \* the value getPosts returned
  links,      \* the hrefs the Posts view rendered
  post,       \* the value getPost returned
  stages,     \* BlogPage: the plugins that have run on the content
  listed,     \* the value of the last getPosts that returned one
  imgSlug,    \* the slug transformImgSrc was made with
  tree0,      \* the markdown tree handed to the transformer
  tree1,      \* the tree after the transformer's first run
  tree,       \* the tree as it is now
  tpc         \* "parsed", "transformed", "twice": runs of the transformer

loaderVars == <<store, pc, op, arg, postSlugs, pending, fileContents, order,
                reads, response, slugsOut, posts, links, post, stages, listed>>
imgVars == <<imgSlug, tree0, tree1, tree, tpc>>
vars == <<loaderVars, imgVars>>

NoResponse == [kind |-> "none", err |-> "", status |-> ""]
NoPost == [slug |-> <<>>, content |-> "", title |-> JsUndefined,
           spoiler |-> JsUndefined, date |-> JsUndefined]
ReadTargets == Names \cup {"<root>", "<other>"}
NoReads == [t \in ReadTargets |-> 0]

(* What a readFile of this path touches, for counting. *)
TargetOf(path) ==
  IF path.up = 0 /\ Len(path.segs) = 1 /\ Len(path.segs[1]) = 1
     /\ path.segs[1][1] \in Names
  THEN path.segs[1][1] ELSE "<other>"

Idle ==
  /\ pc = "idle" /\ op = "" /\ arg = <<>> /\ postSlugs = <<>> /\ pending = {}
  /\ fileContents = <<>> /\ order = <<>> /\ reads = NoReads
  /\ response = NoResponse /\ slugsOut = <<>> /\ posts = <<>> /\ links = <<>>
  /\ post = NoPost /\ stages = <<>>

NoTree == [block |-> "paragraph", children |-> <<>>]
NoTransform ==
  imgSlug = <<>> /\ tree0 = NoTree /\ tree1 = NoTree /\ tree = NoTree /\ tpc = "none"

InitWith(S) == store \in S /\ Idle /\ listed = <<>> /\ NoTransform

(* ------------------------------ requests ------------------------------ *)
(* generateStaticParams: getAllPostSlugs is called. *)
CallGetAllPostSlugs ==
  /\ pc = "idle"
  /\ op' = "getAllPostSlugs" /\ pc' = "readdir"
  /\ UNCHANGED <<store, arg, postSlugs, pending, fileContents, order, reads,
                 response, slugsOut, posts, links, post, stages, listed>>
  /\ UNCHANGED imgVars

(* A getPosts that keeps the list of an earlier request. *)
CallGetPostsMut ==
  /\ pc = "idle"
  /\ op' = "getPosts"
  /\ IF listed # <<>>
     THEN /\ pc' = "done"
          /\ posts' = listed
          /\ links' = postsHrefs(listed)
          /\ response' = [kind |-> "value", err |-> "", status |-> "ok"]
     ELSE /\ pc' = "readdir"
          /\ UNCHANGED <<posts, links, response>>
  /\ UNCHANGED <<store, arg, postSlugs, pending, fileContents, order, reads,
                 slugsOut, post, stages, listed>>
  /\ UNCHANGED imgVars

(* Home, BlogsPage: getPosts is called. *)
CallGetPosts ==
  /\ pc = "idle"
  /\ op' = "getPosts" /\ pc' = "readdir"
  /\ UNCHANGED <<store, arg, postSlugs, pending, fileContents, order, reads,
                 response, slugsOut, posts, links, post, stages, listed>>
  /\ UNCHANGED imgVars

(* generateMetadata, or any caller of the export: getPost({ slug }). *)
CallGetPost(slug) ==
  /\ pc = "idle"
  /\ op' = "getPost" /\ arg' = slug /\ pc' = "readFile"
  /\ UNCHANGED <<store, postSlugs, pending, fileContents, order, reads,
                 response, slugsOut, posts, links, post, stages, listed>>
  /\ UNCHANGED imgVars

(* The route /blogs/<slug> is rendered. *)
CallBlogPage(slug) ==
  /\ pc = "idle"
  /\ op' = "BlogPage" /\ arg' = slug /\ pc' = "readFile"
  /\ UNCHANGED <<store, postSlugs, pending, fileContents, order, reads,
                 response, slugsOut, posts, links, post, stages, listed>>
  /\ UNCHANGED imgVars

(* The readdir of getAllPostSlugs settles.  getAllPostSlugs returns; when   *)
(* getPosts awaited it, getPosts goes on to start one readFile per slug.   *)
Readdir ==
  /\ pc = "readdir"
  /\ LET r == readdir(store)
         out == getAllPostSlugs(r.entries)
     IN
     /\ reads' = [reads EXCEPT !["<root>"] = @ + 1]
     /\ IF ~r.ok
        THEN /\ response' = [kind |-> "error", err |-> r.err, status |-> ""]
             /\ pc' = "done"
             /\ UNCHANGED <<postSlugs, pending, slugsOut>>
        ELSE IF op = "getAllPostSlugs"
        THEN /\ slugsOut' = out
             /\ response' = [kind |-> "value", err |-> "", status |-> ""]
             /\ pc' = "done"
             /\ UNCHANGED <<postSlugs, pending>>
        ELSE /\ postSlugs' = [k \in 1..Len(out) |-> out[k].slug]
             /\ pending' = 1..Len(out)
             /\ pc' = "reading"
             /\ UNCHANGED <<response, slugsOut>>
  /\ UNCHANGED <<store, op, arg, fileContents, order, posts, links, post,
                 stages, listed>>
  /\ UNCHANGED imgVars

(* Where Promise.all puts the value of the promise at position i: at       *)
(* position i of its result, whenever that promise settles.                *)
storeResultMut(contents, i, doc) ==
  [k \in 1..Cardinality(DOMAIN contents) + 1 |->
     IF k = Cardinality(DOMAIN contents) + 1 THEN doc ELSE contents[k]]

storeResult(contents, i, doc) ==
  [k \in DOMAIN contents \cup {i} |-> IF k = i THEN doc ELSE contents[k]]

(* getPosts: the readFile of position i settles.  Promise.all rejects with  *)
(* the first rejection, and getPosts with it; the reads still in flight    *)
(* settle unobserved.                                                      *)
ReadSettles(i) ==
  /\ pc = "reading" /\ i \in pending
  /\ LET path == pathJoin(postSlugs[i])
         r == readFile(store, path)
     IN
     /\ reads' = [reads EXCEPT ![TargetOf(path)] = @ + 1]
     /\ order' = Append(order, i)
     /\ IF r.ok
        THEN /\ fileContents' = storeResult(fileContents, i, r.doc)
             /\ pending' = pending \ {i}
             /\ UNCHANGED <<pc, response>>
        ELSE /\ response' = [kind |-> "error", err |-> r.err, status |-> ""]
             /\ pc' = "done"
             /\ pending' = {}
             /\ UNCHANGED fileContents
  /\ UNCHANGED <<store, op, arg, postSlugs, slugsOut, posts, links, post,
                 stages, listed>>
  /\ UNCHANGED imgVars

(* Whether gray-matter throws on one of the files read. *)
anyThrew(contents) == \E i \in DOMAIN contents : matter(contents[i]).threw

(* getPosts: every file is read; build the posts, sort them, return them;  *)
(* the page then renders the Posts view of them.                           *)
GetPostsReturns ==
  /\ pc = "reading" /\ pending = {}
  /\ IF anyThrew(fileContents)
     THEN /\ response' = [kind |-> "error", err |-> "YAMLException", status |-> ""]
          /\ UNCHANGED <<posts, listed, links>>
     ELSE /\ posts' = sortPosts(mapPosts(postSlugs, fileContents))
          /\ listed' = posts'
          /\ IF postsRenders(posts')
             THEN /\ links' = postsHrefs(posts')
                  /\ response' = [kind |-> "value", err |-> "", status |-> "ok"]
             ELSE /\ links' = <<>>
                  /\ response' = [kind |-> "value", err |-> "RangeError",
                                  status |-> "error"]
  /\ pc' = "done"
  /\ UNCHANGED <<store, op, arg, postSlugs, pending, fileContents, order,
                 reads, slugsOut, post, stages>>
  /\ UNCHANGED imgVars

(* getPost, BlogPage: the readFile settles.  getPost returns the parsed    *)
(* post or rejects with the read's or the parser's error; BlogPage has no  *)
(* catch, so a rejection is the failure of the page, and on a value it     *)
(* hands the content to MDXRemote.                                         *)
ReadFileSettles ==
  /\ pc = "readFile"
  /\ LET path == pathJoin(arg)
         r == readFile(store, path)
     IN
     /\ reads' = [reads EXCEPT ![TargetOf(path)] = @ + 1]
     /\ IF r.ok /\ ~matter(r.doc).threw
        THEN /\ post' = getPostResult(arg, r.doc)
             /\ IF op = "BlogPage"
                THEN /\ pc' = "render"
                     /\ tree0' = mdast(post'.content)
                     /\ tree' = tree0'
                     /\ tpc' = "parsed"
                     /\ UNCHANGED <<response, imgSlug, tree1>>
                ELSE /\ pc' = "done"
                     /\ response' = [kind |-> "value", err |-> "", status |-> ""]
                     /\ UNCHANGED imgVars
        ELSE /\ response' = [kind |-> "error",
                             err |-> IF r.ok THEN "YAMLException" ELSE r.err,
                             status |-> IF op = "BlogPage" THEN "error" ELSE ""]
             /\ pc' = "done"
             /\ UNCHANGED post
             /\ UNCHANGED imgVars
  /\ UNCHANGED <<store, op, arg, postSlugs, pending, fileContents, order,
                 slugsOut, posts, links, stages, listed>>

(* BlogPage: the next plugin of the pipeline runs on the content.  The     *)
(* image transformer is made with the slug of the route's params.          *)
RunPlugin ==
  /\ pc = "render" /\ Len(stages) < Len(pipeline)
  /\ LET name == pipeline[Len(stages) + 1] IN
     /\ stages' = Append(stages, name)
     /\ IF name = "transformImgSrc"
        THEN /\ imgSlug' = arg
             /\ tree' = transformImgSrc(arg, tree)
             /\ tree1' = tree'
             /\ tpc' = "transformed"
             /\ UNCHANGED tree0
        ELSE UNCHANGED imgVars
     /\ IF Len(stages') = Len(pipeline)
        THEN /\ pc' = "done"
             /\ response' = [kind |-> "value", err |-> "", status |-> "ok"]
        ELSE UNCHANGED <<pc, response>>
  /\ UNCHANGED <<store, op, arg, postSlugs, pending, fileContents, order,
                 reads, slugsOut, posts, links, post, listed>>

(* The request is over; its locals are gone. *)
Finish ==
  /\ pc = "done"
  /\ pc' = "idle" /\ op' = "" /\ arg' = <<>> /\ postSlugs' = <<>> /\ pending' = {}
  /\ fileContents' = <<>> /\ order' = <<>> /\ reads' = NoReads
  /\ response' = NoResponse /\ slugsOut' = <<>> /\ posts' = <<>> /\ links' = <<>>
  /\ post' = NoPost /\ stages' = <<>>
  /\ imgSlug' = <<>> /\ tree0' = NoTree /\ tree1' = NoTree /\ tree' = NoTree
  /\ tpc' = "none"
  /\ UNCHANGED <<store, listed>>

(* Between requests, the author changes the content store. *)
EditStore(S) ==
  /\ pc = "idle"
  /\ store' \in S \ {store}
  /\ UNCHANGED <<pc, op, arg, postSlugs, pending, fileContents, order, reads,
                 response, slugsOut, posts, links, post, stages, listed>>
  /\ UNCHANGED imgVars

Init == InitWith(StoresUpTo(MaxDirs))

Next ==
  \/ CallGetAllPostSlugs
  \/ CallGetPosts
  \/ \E slug \in Slugs : CallGetPost(slug)
  \/ \E slug \in Slugs : CallBlogPage(slug)
  \/ Readdir
  \/ \E i \in 1..MaxPosts + 1 : ReadSettles(i)
  \/ GetPostsReturns
  \/ ReadFileSettles
  \/ RunPlugin
  \/ Finish

Spec == Init /\ [][Next]_vars

(* The listing operations alone, over stores of up to MaxPosts entries. *)
InitList == InitWith(StoresUpTo(MaxPosts))

NextList ==
  \/ CallGetAllPostSlugs
  \/ CallGetPosts
  \/ Readdir
  \/ \E i \in 1..MaxPosts + 1 : ReadSettles(i)
  \/ GetPostsReturns
  \/ Finish

SpecList == InitList /\ [][NextList]_vars

(* Requests with the author's edits between them, over stores of at most   *)
(* one entry.                                                              *)
EditStores == StoresUpTo(MaxDirs - 1)

InitEdit == InitWith(EditStores)

NextEdit ==
  \/ EditStore(EditStores)
  \/ CallGetAllPostSlugs
  \/ CallGetPosts
  \/ \E slug \in Slugs : CallGetPost(slug)
  \/ \E slug \in Slugs : CallBlogPage(slug)
  \/ Readdir
  \/ \E i \in 1..MaxPosts + 1 : ReadSettles(i)
  \/ GetPostsReturns
  \/ ReadFileSettles
  \/ RunPlugin
  \/ Finish

SpecEdit == InitEdit /\ [][NextEdit]_vars

(* Stores whose documents vary in their front-matter: keys missing, keys   *)
(* added, no block, a block that is not YAML.  Requests name the posts'    *)
(* directories.                                                            *)
FmStores ==
  {[rootReadable |-> TRUE, entries |-> EntriesOf(sh), outer |-> "absent"] :
     sh \in SeqsUpTo({[kind |-> "dir", index |-> "present", doc |-> d] :
                        d \in FmDocuments}, MaxDirs)}

PlainSlugs == {<<AllNames[k]>> : k \in 1..MaxDirs}

InitFm == InitWith(FmStores)

NextFm ==
  \/ CallGetAllPostSlugs
  \/ CallGetPosts
  \/ \E slug \in PlainSlugs : CallGetPost(slug)
  \/ \E slug \in PlainSlugs : CallBlogPage(slug)
  \/ Readdir
  \/ \E i \in 1..MaxPosts + 1 : ReadSettles(i)
  \/ GetPostsReturns
  \/ ReadFileSettles
  \/ RunPlugin
  \/ Finish

SpecFm == InitFm /\ [][NextFm]_vars

(* Single posts asked for by any slug, over stores of at most one entry    *)
(* with or without an index.md in the directory above the content root.    *)
TraversalStores ==
  {[st EXCEPT !.outer = o] : st \in StoresUpTo(MaxDirs - 1),
                             o \in {"absent", "present"}}

InitTraversal == InitWith(TraversalStores)

NextTraversal ==
  \/ CallGetAllPostSlugs
  \/ \E slug \in Slugs : CallGetPost(slug)
  \/ \E slug \in Slugs : CallBlogPage(slug)
  \/ Readdir
  \/ ReadFileSettles
  \/ RunPlugin
  \/ Finish

SpecTraversal == InitTraversal /\ [][NextTraversal]_vars

(* The plugin alone: any tree, any slug, run once and once more. *)
EmptyStore == [rootReadable |-> TRUE, entries |-> <<>>, outer |-> "absent"]

InitImg ==
  /\ store = EmptyStore /\ Idle /\ listed = <<>>
  /\ imgSlug \in ImgSlugs /\ tree0 \in Trees /\ tree = tree0 /\ tree1 = NoTree
  /\ tpc = "parsed"

(* The transformer returned by transformImgSrc({ slug }) runs on the tree. *)
Transform ==
  /\ tpc \in {"parsed", "transformed"}
  /\ tree' = transformImgSrc(imgSlug, tree)
  /\ tree1' = IF tpc = "parsed" THEN tree' ELSE tree1
  /\ tpc' = IF tpc = "parsed" THEN "transformed" ELSE "twice"
  /\ UNCHANGED <<imgSlug, tree0>>
  /\ UNCHANGED loaderVars

NextImg == Transform

SpecImg == InitImg /\ [][NextImg]_vars

(* ------------------------- properties: listing ------------------------ *)
Returned(o) == pc = "done" /\ op = o /\ response.kind = "value"
Failed(o) == pc = "done" /\ op = o /\ response.kind = "error"

DirEntry(n) == store.entries[EntryNamed(store, n)]
PostDirs == DirNames(store)
DateOf(p) == DateParse(p.date)
Descending(ps) == \A i \in 1..Len(ps) - 1 : NumGe(DateOf(ps[i]), DateOf(ps[i + 1]))
AllDatesParse(ps) == \A i \in 1..Len(ps) : DateOf(ps[i]) # NaN

(* C1, as stated: for every content store, the sequence getPosts returns   *)
(* has date(a) >= date(b) for every adjacent pair (a, b).                  *)
C1_SortedForEveryStore == Returned("getPosts") => Descending(posts)

(* C1, amended: when the date of every post parses, the sequence getPosts  *)
(* returns has date(a) >= date(b) for every adjacent pair, equal dates     *)
(* included.                                                               *)
C1_SortedWhenDatesParse ==
  (Returned("getPosts") /\ AllDatesParse(posts)) => Descending(posts)

C1_Witness ==
  /\ Returned("getPosts") /\ AllDatesParse(posts) /\ Len(posts) = 3
  /\ \E i \in 1..2 : DateOf(posts[i]) = DateOf(posts[i + 1])
  /\ \E i \in 1..2 : DateOf(posts[i]) > DateOf(posts[i + 1])
  /\ posts # mapPosts(postSlugs, fileContents)

(* A valid content directory: the root can be listed and every             *)
(* subdirectory holds a readable index.md.                                 *)
ValidStore ==
  store.rootReadable /\ \A n \in PostDirs : DirEntry(n).index = "present"

(* C2: over a valid content directory getPosts returns a list with exactly *)
(* one entry per immediate subdirectory of the root, each entry's slug     *)
(* non-empty.                                                              *)
C2_OneEntryPerSubdirectory ==
  (pc = "done" /\ op = "getPosts" /\ ValidStore) =>
    /\ response.kind = "value"
    /\ Len(posts) = Cardinality(PostDirs)
    /\ {posts[i].slug : i \in 1..Len(posts)} = {<<n>> : n \in PostDirs}
    /\ \A i \in 1..Len(posts) : posts[i].slug # <<>>

C2_Witness ==
  /\ Returned("getPosts") /\ ValidStore /\ Len(posts) = 2
  /\ Len(store.entries) = 3

(* C7: getAllPostSlugs returns the names of the immediate subdirectories   *)
(* of the root, each once, and no name of a plain file.                    *)
C7_SlugsAreTheSubdirectories ==
  (pc = "done" /\ op = "getAllPostSlugs" /\ store.rootReadable) =>
    /\ response.kind = "value"
    /\ Len(slugsOut) = Cardinality(PostDirs)
    /\ {slugsOut[k].slug : k \in 1..Len(slugsOut)} = {<<n>> : n \in PostDirs}

C7_Witness ==
  /\ Returned("getAllPostSlugs") /\ Len(slugsOut) = 2 /\ Len(store.entries) = 3

(* C9: a request that meets an unreadable root or an unreadable post file  *)
(* fails as a whole: getAllPostSlugs and getPosts fail when the root       *)
(* cannot be listed, getPosts returns no list, not even a partial one,     *)
(* when some post's index.md cannot be read, and no file system call is    *)
(* made twice in one request.                                              *)
C9_FailsAsAWhole ==
  /\ (pc = "done" /\ op \in {"getAllPostSlugs", "getPosts"} /\ ~store.rootReadable) =>
       (response.kind = "error" /\ slugsOut = <<>> /\ posts = <<>>)
  /\ (pc = "done" /\ op = "getPosts" /\ store.rootReadable /\ ~ValidStore) =>
       (response.kind = "error" /\ posts = <<>>)
  /\ \A t \in ReadTargets : reads[t] <= 1

C9_Witness ==
  /\ Failed("getPosts") /\ store.rootReadable /\ DOMAIN fileContents # {}
  /\ \E n \in PostDirs : DirEntry(n).index = "unreadable" /\ reads[n] = 1

(* ----------------------- properties: single post ---------------------- *)
(* An existing slug: the name of a subdirectory that holds a readable      *)
(* index.md.                                                               *)
ExistingSlug(slug) ==
  Len(slug) = 1 /\ slug[1] \in PostDirs /\ DirEntry(slug[1]).index = "present"

Metadata(p) == [slug |-> p.slug, title |-> p.title, spoiler |-> p.spoiler,
                date |-> p.date]

SameAsListed ==
  \A i \in 1..Len(listed) : listed[i].slug = arg => Metadata(post) = listed[i]

(* C3, as stated: for an existing slug getPost returns the metadata of     *)
(* that slug's entry in the list of getPosts, and a non-empty content.     *)
C3_ListedMetadataAndNonEmptyContent ==
  (pc = "done" /\ op = "getPost" /\ ExistingSlug(arg)) =>
    (response.kind = "value" /\ SameAsListed /\ post.content # "")

(* C3, amended: for an existing slug getPost returns the metadata of that  *)
(* slug's entry in the list of getPosts, and as content the document's     *)
(* body, which is empty when nothing follows the front-matter.             *)
C3_ListedMetadataAndBody ==
  (pc = "done" /\ op = "getPost" /\ ExistingSlug(arg)) =>
    /\ response.kind = "value"
    /\ post.slug = arg
    /\ SameAsListed
    /\ post.content = DirEntry(arg[1]).doc.body

C3_Witness ==
  /\ Returned("getPost") /\ ExistingSlug(arg) /\ Len(listed) = 2
  /\ listed[2].slug = arg /\ post.content # ""

(* The file a slug stands for is absent: no index.md at the path, or no    *)
(* directory to hold it.                                                   *)
IndexAbsent(slug) == readFile(store, pathJoin(slug)).err \in {"ENOENT", "ENOTDIR"}

(* C4: getPost of a slug whose index.md is absent fails with a not-found   *)
(* error and returns no post, and the page answers not-found.              *)
C4_AbsentSlugIsNotFound ==
  (pc = "done" /\ op \in {"getPost", "BlogPage"} /\ IndexAbsent(arg)) =>
    /\ response.kind = "error" /\ response.err \in {"ENOENT", "ENOTDIR"}
    /\ post = NoPost
    /\ op = "BlogPage" => response.status = "not_found"

(* The directory a path reads index.md from, when it is one below the      *)
(* root.                                                                   *)
DirectoryRead(slug) == pathJoin(slug).segs[1]

(* C8: the slug of every entry getPosts returns and of every post getPost  *)
(* returns is the name of the directory its document was read from, and no *)
(* two entries of one list share a slug.                                   *)
C8_SlugIsTheDirectoryName ==
  /\ Returned("getPosts") =>
       /\ \A i \in 1..Len(posts) :
            /\ posts[i].slug \in {<<n>> : n \in PostDirs}
            /\ posts[i] = blogPost(posts[i].slug, DirEntry(posts[i].slug[1]).doc)
       /\ \A i, j \in 1..Len(posts) : posts[i].slug = posts[j].slug => i = j
  /\ (pc = "done" /\ op \in {"getPost", "BlogPage"} /\ response.kind = "value") =>
       post.slug = DirectoryRead(arg)

(* The document of the round trip, with any body. *)
RoundTripDocument(doc) ==
  /\ doc.title = Quoted("T") /\ doc.date = Quoted("2024-01-01")
  /\ doc.spoiler = Quoted("S")

RoundTripParsed(p) ==
  /\ p.title = JsString("T") /\ p.date = JsString("2024-01-01")
  /\ p.spoiler = JsString("S")

(* C10: a document written with title "T", date "2024-01-01" and spoiler   *)
(* "S" comes back from getPost and from getPosts with the strings "T",     *)
(* "2024-01-01" and "S".                                                   *)
C10_FrontMatterRoundTrip ==
  /\ (Returned("getPost") /\ ExistingSlug(arg)
        /\ RoundTripDocument(DirEntry(arg[1]).doc)) => RoundTripParsed(post)
  /\ Returned("getPosts") =>
       \A i \in 1..Len(posts) :
         RoundTripDocument(DirEntry(posts[i].slug[1]).doc) => RoundTripParsed(posts[i])

C10_Witness ==
  /\ Returned("getPosts") /\ Len(posts) = 2
  /\ RoundTripDocument(DirEntry(posts[1].slug[1]).doc)
  /\ ~RoundTripDocument(DirEntry(posts[2].slug[1]).doc)
  /\ posts[2].date.t = "Date"

(* ---------------------- properties: image rewriting ------------------- *)
ImagePositions == {k \in 1..Len(tree0.children) : tree0.children[k].type = "image"}
StartsWithDotSlash(url) == Len(url) >= 2 /\ url[1] = "." /\ url[2] = "/"
(* ./<filename>: "./" and then a name with no separator in it. *)
IsDotSlashFile(url) ==
  /\ StartsWithDotSlash(url) /\ Len(url) >= 3
  /\ \A i \in 3..Len(url) : url[i] # "/"
FileNameOf(url) == SubSeq(url, 3, Len(url))

(* C5: once the transformer has run with slug S, an image whose URL was    *)
(* ./<filename> has the URL /blogs/S/<filename>.                           *)
C5_RelativeImageIsRewritten ==
  tpc = "transformed" =>
    \A k \in ImagePositions :
      IsDotSlashFile(tree0.children[k].url) =>
        tree.children[k].url =
          <<"/", "blogs", "/">> \o imgSlug \o <<"/">> \o FileNameOf(tree0.children[k].url)

(* C6: once the transformer has run, an image whose URL did not start with *)
(* "./" has the URL it had before.                                         *)
C6_OtherUrlsAreUnchanged ==
  tpc = "transformed" =>
    \A k \in ImagePositions :
      ~StartsWithDotSlash(tree0.children[k].url) =>
        tree.children[k].url = tree0.children[k].url

(* C11: once the transformer has run with slug S, every image of a         *)
(* top-level paragraph whose URL was ./<filename> has the URL              *)
(* /blogs/S/<filename>, however many images the paragraph holds, and a     *)
(* paragraph nested in another block is left as it was.                    *)
C11_EveryRelativeImageOfTopLevelParagraphs ==
  tpc = "transformed" =>
    /\ tree0.block = "paragraph" =>
         \A k \in ImagePositions :
           IsDotSlashFile(tree0.children[k].url) =>
             tree.children[k].url =
               <<"/", "blogs", "/">> \o imgSlug \o <<"/">>
                 \o FileNameOf(tree0.children[k].url)
    /\ tree0.block = "blockquote" => tree = tree0

(* ------------------- properties: the store over time ------------------ *)
(* What a request does, apart from the store it reads. *)
requestVars == <<pc, op, arg, postSlugs, pending, fileContents, order, reads,
                 response, slugsOut, posts, links, post, stages, listed, imgVars>>

(* The posts of the store as it is now, one per subdirectory. *)
PostsOfStore == {blogPost(<<n>>, DirEntry(n).doc) : n \in PostDirs}

ReflectsTheStore ==
  /\ Returned("getAllPostSlugs") =>
       /\ {slugsOut[i].slug : i \in 1..Len(slugsOut)} = {<<n>> : n \in PostDirs}
       /\ reads["<root>"] = 1
  /\ Returned("getPosts") =>
       /\ {posts[i] : i \in 1..Len(posts)} = PostsOfStore
       /\ reads["<root>"] = 1
       /\ \A n \in PostDirs : reads[n] = 1
  /\ (pc = "done" /\ op \in {"getPost", "BlogPage"}) =>
       LET r == readFile(store, pathJoin(arg)) IN
       /\ reads[TargetOf(pathJoin(arg))] = 1
       /\ response.kind = "value" <=> r.ok
       /\ r.ok => /\ post.content = r.doc.body
                  /\ post.title = yamlResolve(r.doc.title)
                  /\ post.date = yamlResolve(r.doc.date)
                  /\ post.spoiler = yamlResolve(r.doc.spoiler)

(* C12: the steps of getAllPostSlugs, getPosts, getPost and the page       *)
(* renders never change the content store (only the author's edit between  *)
(* requests does), and every request reads the store itself: what it       *)
(* returns is what the store holds at the time of the call, never the      *)
(* result of an earlier request.                                           *)
C12_ReadOnlyAndUncached ==
  /\ []ReflectsTheStore
  /\ [][store' # store => UNCHANGED requestVars]_vars

(* A getPost returns metadata that differs from the entry an earlier       *)
(* getPosts listed for the same slug: the store was edited in between.     *)
C12_Witness ==
  /\ Returned("getPost")
  /\ \E i \in 1..Len(listed) : listed[i].slug = arg /\ Metadata(post) # listed[i]

(* ---------------------- properties: front-matter ---------------------- *)
DocOf(slug) == DirEntry(slug[1]).doc

(* A document whose front-matter is not the three documented keys in a     *)
(* YAML block: a key is missing, there is no block, or the block does not  *)
(* parse.                                                                  *)
Malformed(doc) == doc.syntax # "yaml" \/ \E k \in FmKeys : doc[k] = Absent

UndefinedWhereAbsent(p, doc) ==
  \A k \in FmKeys : (doc.syntax # "yaml" \/ doc[k] = Absent) => p[k] = JsUndefined

(* C13: over malformed front-matter getPost and getPosts return normally,  *)
(* the fields the front-matter does not give are undefined, and the page   *)
(* of the post runs its whole rendering pipeline.                          *)
C13_MalformedFrontMatterIsTolerated ==
  /\ (pc = "done" /\ op \in {"getPost", "BlogPage"} /\ ExistingSlug(arg)
      /\ Malformed(DocOf(arg))) =>
       /\ response.kind = "value"
       /\ UndefinedWhereAbsent(post, DocOf(arg))
       /\ op = "BlogPage" => (response.status = "ok" /\ stages = pipeline)
  /\ (pc = "done" /\ op = "getPosts"
      /\ \E n \in PostDirs : Malformed(DirEntry(n).doc)) =>
       /\ response.kind = "value"
       /\ \A i \in 1..Len(posts) :
            UndefinedWhereAbsent(posts[i], DocOf(posts[i].slug))

(* C15: whatever keys the front-matter has beside title, date and spoiler, *)
(* every entry getPosts returns has exactly the fields slug, title,        *)
(* spoiler, date, and what getPost returns has exactly those and content;  *)
(* their values are those of the document without its extra keys.          *)
C15_OnlyTheDocumentedKeys ==
  /\ Returned("getPosts") =>
       \A i \in 1..Len(posts) :
         /\ DOMAIN posts[i] = {"slug", "title", "spoiler", "date"}
         /\ posts[i] = blogPost(posts[i].slug,
                                [DocOf(posts[i].slug) EXCEPT !.extra = {}])
  /\ (pc = "done" /\ op \in {"getPost", "BlogPage"} /\ response.kind = "value") =>
       /\ DOMAIN post = {"slug", "title", "spoiler", "date", "content"}
       /\ post = getPostResult(arg, [DocOf(arg) EXCEPT !.extra = {}])

(* getPosts has returned posts whose front-matter each has a key beside    *)
(* the three.                                                              *)
C15_Witness ==
  /\ Returned("getPosts") /\ Len(posts) = MaxDirs
  /\ \A i \in 1..Len(posts) : DocOf(posts[i].slug).extra # {}
  /\ \E i \in 1..Len(listed) : listed[i].title # JsUndefined

(* ------------------------ properties: rendering ----------------------- *)
StageOrder == <<"transformImgSrc", "remarkSmartypants", "rehypePrettyCode">>

(* C14: in every render of a post the stages that have run are, in this    *)
(* order, the image rewrite, the smart punctuation and the rendering with  *)
(* syntax highlighting, all three once the page is rendered; the image     *)
(* rewrite ran on the content of the post getPost returned for the route's *)
(* slug, and with that post's slug.                                        *)
C14_StagesInFixedOrder ==
  op = "BlogPage" =>
    /\ \E n \in 0..Len(StageOrder) : stages = SubSeq(StageOrder, 1, n)
    /\ response.status = "ok" => stages = StageOrder
    /\ pc = "render" =>
         /\ post.slug = arg
         /\ tree0 = mdast(post.content)
         /\ stages = <<>> => (tree = tree0 /\ tpc = "parsed")
    /\ stages # <<>> =>
         /\ imgSlug = post.slug
         /\ tree = transformImgSrc(post.slug, mdast(post.content))

(* A page is rendered whose image was rewritten. *)
C14_Witness ==
  /\ Returned("BlogPage") /\ response.status = "ok" /\ stages = StageOrder
  /\ tree # tree0

(* ------------------------- properties: the sort ----------------------- *)
(* The list holds each loaded post once and nothing else. *)
PermutationOfLoaded ==
  /\ Len(posts) = Cardinality(PostDirs)
  /\ \A n \in PostDirs :
       /\ Cardinality({i \in 1..Len(posts) : posts[i].slug = <<n>>}) = 1
       /\ \E i \in 1..Len(posts) : posts[i] = blogPost(<<n>>, DirEntry(n).doc)

(* Any two posts whose dates parse and differ stand newer first. *)
RelativeDescending(ps) ==
  \A i, j \in 1..Len(ps) :
    (i < j /\ DateOf(ps[i]) # NaN /\ DateOf(ps[j]) # NaN
     /\ DateOf(ps[i]) # DateOf(ps[j])) => DateOf(ps[i]) > DateOf(ps[j])

(* With every file read, the sort has a result over the posts built. *)
SortReturns ==
  (pc = "reading" /\ pending = {}) =>
    Len(sortPosts(mapPosts(postSlugs, fileContents))) = Len(postSlugs)

(* C16, as stated: whatever the dates, the sort returns, the list is a     *)
(* permutation of the loaded posts, and the posts whose dates parse and    *)
(* differ are in descending order relative to each other.                  *)
C16_PermutationAndParseableDescending ==
  /\ SortReturns
  /\ Returned("getPosts") => (PermutationOfLoaded /\ RelativeDescending(posts))

(* C16, amended: whatever the dates, the sort returns and the list is a    *)
(* permutation of the loaded posts; the posts whose dates differ are in    *)
(* descending order relative to each other when the date of every post     *)
(* parses.                                                                 *)
C16_PermutationAlwaysDescendingWhenAllParse ==
  /\ SortReturns
  /\ Returned("getPosts") =>
       /\ PermutationOfLoaded
       /\ AllDatesParse(posts) => RelativeDescending(posts)

(* Three posts, one with a date that does not parse, and the sort moved    *)
(* one.                                                                    *)
C16_Witness ==
  /\ Returned("getPosts") /\ Len(posts) = MaxPosts
  /\ \E i \in 1..Len(posts) : DateOf(posts[i]) = NaN
  /\ posts # mapPosts(postSlugs, fileContents)

(* -------------------- properties: concurrent reads -------------------- *)
(* C17: getPosts starts the reads of all its slugs together; in whatever   *)
(* order they settle, the file kept at position i is the index.md of slug  *)
(* i, and every entry of the result carries the metadata of its own slug's *)
(* index.md.                                                               *)
C17_EntryPairsSlugWithItsOwnFile ==
  /\ (pc = "reading" /\ order = <<>>) => pending = 1..Len(postSlugs)
  /\ (op = "getPosts" /\ pc \in {"reading", "done"}) =>
       \A i \in DOMAIN fileContents : fileContents[i] = DocOf(postSlugs[i])
  /\ Returned("getPosts") =>
       /\ DOMAIN fileContents = 1..Len(postSlugs)
       /\ \A i \in 1..Len(posts) :
            posts[i] = blogPost(posts[i].slug, DocOf(posts[i].slug))

(* The last read started settled first, the first one last, over files     *)
(* that differ.                                                            *)
C17_Witness ==
  /\ Returned("getPosts") /\ Len(postSlugs) = MaxPosts
  /\ order[1] = MaxPosts /\ order[MaxPosts] = 1
  /\ DocOf(postSlugs[1]) # DocOf(postSlugs[MaxPosts])

(* ----------------------- properties: path safety ---------------------- *)
ListedSlugs == {<<n>> : n \in PostDirs}

(* The path is <content-root>/<directory name>/index.md of a listed post   *)
(* directory.                                                              *)
InsideAListedDirectory(path) ==
  path.up = 0 /\ Len(path.segs) = 1 /\ path.segs[1] \in ListedSlugs

(* C18: getPost succeeds only for a slug getAllPostSlugs returns, and for  *)
(* every slug, separators and ".." included, the file it reads is the      *)
(* index.md of a listed post directory.                                    *)
C18_OnlyListedSlugsAreRead ==
  (pc \in {"render", "done"} /\ op \in {"getPost", "BlogPage"}) =>
    /\ post # NoPost => arg \in ListedSlugs
    /\ readFile(store, pathJoin(arg)).ok => InsideAListedDirectory(pathJoin(arg))

(* -------------------------- properties: links ------------------------- *)
(* The params generateStaticParams returns over the store as it is. *)
StaticParams ==
  LET out == getAllPostSlugs(readdir(store).entries) IN
  {out[k].slug : k \in 1..Len(out)}

GetPostSucceeds(slug) ==
  LET r == readFile(store, pathJoin(slug)) IN r.ok /\ ~matter(r.doc).threw

LinksOfEveryPost ==
  /\ Len(links) = Len(posts)
  /\ \A i \in 1..Len(posts) :
       /\ links[i] = <<"/", "blogs", "/">> \o posts[i].slug
       /\ posts[i].slug \in StaticParams
       /\ GetPostSucceeds(posts[i].slug)

(* C19: for every post getPosts returned, the list view renders a link to  *)
(* /blogs/<slug>, the slug is one generateStaticParams returns, and        *)
(* getPost of it succeeds over the same store.                             *)
C19_LinksTargetGeneratedRoutes == Returned("getPosts") => LinksOfEveryPost

(* ------------------ properties: the rewrite, repeated ----------------- *)
DotSlashAt(url) == {i \in 1..Len(url) - 1 : url[i] = "." /\ url[i + 1] = "/"}

(* The URL without its first "./", whole when it has none. *)
WithoutFirstDotSlash(url) ==
  IF DotSlashAt(url) = {} THEN url
  ELSE LET i == CHOOSE x \in DotSlashAt(url) : \A y \in DotSlashAt(url) : x <= y
       IN SubSeq(url, 1, i - 1) \o SubSeq(url, i + 2, Len(url))

FirstImagePosition == CHOOSE k \in ImagePositions : \A j \in ImagePositions : k <= j

(* C20: once the transformer has run with slug S, the URL of the first     *)
(* image of the paragraph, at any depth, is /blogs/S/ followed by the      *)
(* original URL without its first "./" (a later "./" stays); run a second  *)
(* time, the transformer gives that image another URL than the first run   *)
(* did.                                                                    *)
C20_FirstImageScopedOnceNotIdempotent ==
  (tpc \in {"transformed", "twice"} /\ ImagePositions # {}) =>
    LET k == FirstImagePosition
        u0 == tree0.children[k].url
        u1 == tree1.children[k].url
        scope == <<"/", "blogs", "/">> \o imgSlug \o <<"/">>
    IN /\ SubSeq(u1, 1, Len(scope)) = scope
       /\ SubSeq(u1, Len(scope) + 1, Len(u1)) = WithoutFirstDotSlash(u0)
       /\ tpc = "twice" => tree.children[k].url # u1

(* The transformer has run twice on a paragraph whose first image was      *)
(* ././foo.png.                                                            *)
C20_Witness ==
  /\ tpc = "twice" /\ ImagePositions # {}
  /\ tree0.children[FirstImagePosition].url = <<".", "/", ".", "/", "foo.png">>
  /\ tree1.children[FirstImagePosition].url
       = <<"/", "blogs", "/">> \o imgSlug \o <<"/", ".", "/", "foo.png">>

====
